---- MODULE Spec2Model ----
(***************************************************************************)
(* State-machine model of src/src/electrumx.rs (wizhodl/atomicalsir):      *)
(* the ElectrumX client, its failover/retry loop (ElectrumX::post) and the *)
(* UTXO operations of trait Api built on it (get_unspent_scripthash,       *)
(* get_unspent_address, wait_until_utxo).                                  *)
(*                                                                         *)
(* One task issues calls one after the other on a client (Spec, SpecUtxo,  *)
(* SpecFair), on a client that ElectrumXBuilder builds first (SpecBuild),  *)
(* or next to a second task that posts on the same client (SpecConc); the  *)
(* task may be cancelled at any suspension point.  A step                  *)
(* of the model runs the code from one suspension point (.await) to the    *)
(* next: the HTTP send, the read of the body, the retry sleep, the poll    *)
(* sleep.  Rust indexes base_uris from 0; uri_index keeps that, and the    *)
(* model reads base_uris[uri_index + 1].                                   *)
(***************************************************************************)
EXTENDS Integers, Sequences, FiniteSets, TLC

\* ------------------------------------------------------------------ bounds
MaxUris == 2          \* longest base_uris list explored
MaxRetries == 2       \* largest max_retries explored (besides the default)
MaxUtxos == 2         \* longest upstream listing explored
MaxValue == 2         \* largest satoshi value explored
MaxPolls == 2         \* the poll counter saturates here (the loop does not stop)

\* ------------------------------------------------------- program constants
DefaultMaxRetries == 3    \* ElectrumXBuilder::build: max_retries: 3
RetryDelaySecs == 2       \* post: retry_delay = Duration::from_secs(2)
PollDelaySecs == 5        \* wait_until_utxo: time::sleep(Duration::from_secs(5))

VARIABLES
    network,      \* ElectrumX.network
    base_uris,    \* ElectrumX.base_uris
    max_retries,  \* ElectrumX.max_retries
    pc,           \* where the task is: idle, send, text, decode, a sleep, done,
                  \* panicked, cancelled (builder, build_failed before there is a client)
    op,           \* the Api method the caller invoked
    address,      \* argument of get_unspent_address / wait_until_utxo
    satoshis,     \* argument of wait_until_utxo
    params,       \* the Params sent with the current post
    uri_index,    \* post: let mut uri_index
    attempts,     \* post: let mut attempts
    tried,        \* history: uri_index of every HTTP attempt of the current post
    sleeps,       \* history: retry_delay sleeps started in the current post
    slept,        \* seconds of the sleep the task is in (0 when not sleeping)
    resp_text,    \* post: let resp_text, the body read (kept once it decoded)
    utxos,        \* the Vec<Utxo> the last get_unspent_scripthash returned
    result,       \* what the invoked method returned to the caller
    polls,        \* wait_until_utxo: listings polled so far (saturating)
    status,       \* history: HTTP status of the last response received (0: none)
    pc2,          \* a second task calling post on the same client: where it is
    uri_index2,   \* the second task's post: let mut uri_index
    attempts2,    \* the second task's post: let mut attempts
    tried2        \* history: uri_index of every HTTP attempt of the second task's post

cfg == <<network, base_uris, max_retries>>
vars == <<network, base_uris, max_retries, pc, op, address, satoshis, params,
          uri_index, attempts, tried, sleeps, slept, resp_text, utxos, result, polls,
          status, pc2, uri_index2, attempts2, tried2>>

\* The locals of the second task's post.
PeerVars == <<pc2, uri_index2, attempts2, tried2>>

\* --------------------------------------------------------------- the data
Networks == {"Bitcoin", "Testnet"}
AllUris == <<"http://A", "http://B", "http://C", "http://D">>
DefaultBaseUris == <<"https://ep.atomicals.xyz/proxy">>

Txids == {"tx_a"}
Vouts == {0, 1}
AtomicalsLists == {<<>>, <<"id1">>}

\* Unspent: the wire shape of one listunspent entry.
Unspents ==
    [txid : Txids, vout : Vouts, value : 1..MaxValue, atomicals : AtomicalsLists,
     height : {800000}]

\* The listings an upstream may answer with.
Listings == UNION {[1..n -> Unspents] : n \in 0..MaxUtxos}

\* impl From<Unspent> for Utxo: the domain shape keeps txid, vout, value and
\* atomicals of the wire entry.
IntoUtxo(u) ==
    [txid |-> u.txid, vout |-> u.vout, value |-> u.value, atomicals |-> u.atomicals]

\* .into_iter().map(|u| u.into()).collect::<Vec<Utxo>>()
MapIntoUtxo(l) == [i \in 1..Len(l) |-> IntoUtxo(l[i])]

\* ------------------------------------------------------------ the methods
DirectOps == {"get_by_ticker", "get_ft_info", "broadcast"}
UnspentOps == {"get_unspent_scripthash", "get_unspent_address", "wait_until_utxo"}

\* The endpoint each method posts to.
Endpoint(o) ==
    CASE o = "get_by_ticker" -> "blockchain.atomicals.get_by_ticker"
      [] o = "get_ft_info" -> "blockchain.atomicals.get_ft_info"
      [] o = "broadcast" -> "blockchain.transaction.broadcast"
      [] OTHER -> "blockchain.scripthash.listunspent"

\* The type R each method asks post to decode the body into.
ExpectedShape(o) ==
    CASE o = "get_by_ticker" -> "Response<ResponseResult<Ticker>>"
      [] o = "get_ft_info" -> "Response<ResponseResult<Ft>>"
      [] o = "broadcast" -> "Response<String>"
      [] OTHER -> "Response<Vec<Unspent>>"

\* The argument a caller passes to each direct method.
DirectArgs(o) ==
    CASE o = "get_by_ticker" -> {"quark"}
      [] o = "get_ft_info" -> {"atomical_id_1"}
      [] OTHER -> {"rawtx_hex"}

\* Response bodies: text that is no JSON of any expected shape (an HTML error
\* page), or the JSON of one of the envelopes.  shape: the type the text
\* decodes into; listing: the `response` array of a listunspent envelope;
\* payload: the Ticker, Ft or String the other envelopes carry.
HtmlBody == [shape |-> "html", listing |-> <<>>, payload |-> ""]
EnvelopeBodies ==
    {[shape |-> "Response<ResponseResult<Ticker>>", listing |-> <<>>, payload |-> "ticker_quark"],
     [shape |-> "Response<ResponseResult<Ft>>", listing |-> <<>>, payload |-> "ft_info"],
     [shape |-> "Response<String>", listing |-> <<>>, payload |-> "txid_of_broadcast"]}
ListingBodies ==
    {[shape |-> "Response<Vec<Unspent>>", listing |-> l, payload |-> ""] : l \in Listings}
Bodies == {HtmlBody} \cup EnvelopeBodies \cup ListingBodies
EngineBodies == {b \in Bodies : Len(b.listing) <= 1}
NoBody == [shape |-> "none", listing |-> <<>>, payload |-> ""]

\* HTTP status codes of a response: 200 OK, and one that is no success.
StatusOk == 200
Statuses == {StatusOk, 500}

\* serde_json::from_str::<R>(&resp_text): Ok exactly when the text has R's shape.
DecodeOk(o, body) == body.shape = ExpectedShape(o)

\* Results of a method.
NoResult == [kind |-> "None", value |-> <<>>]
Ok(v) == [kind |-> "Ok", value |-> v]
Err(e) == [kind |-> "Err", value |-> <<e>>]
ExhaustedMsg == "All URIs exhausted, still failed"
TextError == "reqwest::Error(body)"

\* -------------------------------------------------------------- addresses
\* Address strings a caller may pass: one per network, and one that is no
\* address at all.
Addresses == {"bc1q_mainnet_addr", "tb1q_testnet_addr", "not_an_address"}

\* Address::from_str(address): Ok for a well-formed address string.
FromStrOk(a) == a \in {"bc1q_mainnet_addr", "tb1q_testnet_addr"}

\* Address<NetworkUnchecked>::require_network(network): Ok when the address
\* is one of that network.
RequireNetworkOk(a, n) ==
    \/ a = "bc1q_mainnet_addr" /\ n = "Bitcoin"
    \/ a = "tb1q_testnet_addr" /\ n = "Testnet"
AddressMismatch == "AddressMismatch"

\* util::address2scripthash: the scripthash an address is listed under.
Scripthashes == {"scripthash_of_bc1q", "scripthash_of_tb1q"}
address2scripthash(a) ==
    IF a = "bc1q_mainnet_addr" THEN "scripthash_of_bc1q" ELSE "scripthash_of_tb1q"

\* ------------------------------------------------------------------- sort
\* InsertByValue with the comparison reversed (b.value.cmp(&a.value)).
InsertByValueDescending(t, u) ==
    LET k == Cardinality({i \in 1..Len(t) : t[i].value >= u.value})
    IN  SubSeq(t, 1, k) \o <<u>> \o SubSeq(t, k + 1, Len(t))

\* InsertByValue as an unstable sort may place it: before the elements of
\* equal value.
InsertByValueBeforeEqual(t, u) ==
    LET k == Cardinality({i \in 1..Len(t) : t[i].value < u.value})
    IN  SubSeq(t, 1, k) \o <<u>> \o SubSeq(t, k + 1, Len(t))

\* utxos.sort_by(|a, b| a.value.cmp(&b.value)): slice::sort_by is a stable
\* sort; on short slices it is an insertion sort, which places each element
\* after the elements that compare less than or equal to it.
InsertByValue(t, u) ==
    LET k == Cardinality({i \in 1..Len(t) : t[i].value <= u.value})
    IN  SubSeq(t, 1, k) \o <<u>> \o SubSeq(t, k + 1, Len(t))

RECURSIVE SortByValue(_)
SortByValue(s) ==
    IF s = <<>> THEN <<>>
    ELSE InsertByValue(SortByValue(SubSeq(s, 1, Len(s) - 1)), s[Len(s)])

\* Spendable without the `u.atomicals.is_empty()` test.
SpendableAnyAtomicals(u, m) == u.value >= m

\* wait_until_utxo's test of one Utxo.
Spendable(u, m) == u.atomicals = <<>> /\ u.value >= m

\* FirstSpendable scanning from the end of the listing.
LastSpendable(l, m) ==
    LET hits == {i \in 1..Len(l) : Spendable(l[i], m)}
    IN  IF hits = {} THEN 0 ELSE CHOOSE i \in hits : \A j \in hits : i >= j

\* for u in listing { if spendable { return Ok(u) } }: the index of the Utxo
\* the scan returns, 0 when the scan falls through.
FirstSpendable(l, m) ==
    LET hits == {i \in 1..Len(l) : Spendable(l[i], m)}
    IN  IF hits = {} THEN 0 ELSE CHOOSE i \in hits : \A j \in hits : i <= j

PostVars == <<params, uri_index, attempts, tried, sleeps>>
OutVars == <<resp_text, utxos, result, polls>>
ArgVars == <<op, address, satoshis>>

\* ------------------------------------------------------------------- Init
\* No call in progress.
Idle ==
    /\ pc = "idle"
    /\ op = "none"
    /\ address = "none"
    /\ satoshis = 0
    /\ params = "none"
    /\ uri_index = 0
    /\ attempts = 0
    /\ tried = <<>>
    /\ sleeps = 0
    /\ slept = 0
    /\ resp_text = NoBody
    /\ utxos = <<>>
    /\ result = NoResult
    /\ polls = 0
    /\ status = 0
    /\ pc2 = "idle"
    /\ uri_index2 = 0
    /\ attempts2 = 0
    /\ tried2 = <<>>

\* A client with any configuration: the fields network, base_uris and
\* max_retries of struct ElectrumX are public.
Init ==
    /\ network \in Networks
    /\ base_uris \in {SubSeq(AllUris, 1, n) : n \in 0..MaxUris}
    /\ max_retries \in (0..MaxRetries) \cup {DefaultMaxRetries}
    /\ Idle

\* The client ElectrumXBuilder::default().network(n).build() returns.
InitDefault ==
    /\ network \in Networks
    /\ base_uris = DefaultBaseUris
    /\ max_retries = DefaultMaxRetries
    /\ Idle

\* ------------------------------------------------------ ElectrumXBuilder
\* Everything a call keeps: untouched while the client is being built.
CallVars == <<op, address, satoshis, params, uri_index, attempts, tried, sleeps,
              slept, resp_text, utxos, result, polls>>

\* Strings given to the builder are sequences of characters, so that the
\* split on ',' is computed.  "", "a", "a,b", "a," and ",".
CsvInputs == {<<>>, <<"a">>, <<"a", ",", "b">>, <<"a", ",">>, <<",">>}

\* str::split(','): the pieces between the commas; a string without a comma
\* (the empty string too) is one piece.
RECURSIVE Split(_)
Split(s) ==
    LET commas == {i \in 1..Len(s) : s[i] = ","}
    IN  IF commas = {} THEN <<s>>
        ELSE LET k == CHOOSE i \in commas : \A j \in commas : i <= j
             IN  <<SubSeq(s, 1, k - 1)>> \o Split(SubSeq(s, k + 1, Len(s)))

\* Values a caller may write into the public field ElectrumXBuilder.base_uris.
BaseUrisFieldValues == {<<>>, <<<<"b">>>>}

\* ElectrumXBuilder::default(); max_retries is no field of the builder and
\* stays 0 until build.
InitBuilder ==
    /\ pc = "builder"
    /\ network = "Bitcoin"
    /\ base_uris = DefaultBaseUris
    /\ max_retries = 0
    /\ op = "none" /\ address = "none" /\ satoshis = 0
    /\ params = "none" /\ uri_index = 0 /\ attempts = 0
    /\ tried = <<>> /\ sleeps = 0 /\ slept = 0
    /\ resp_text = NoBody /\ utxos = <<>> /\ result = NoResult /\ polls = 0
    /\ status = 0
    /\ pc2 = "idle" /\ uri_index2 = 0 /\ attempts2 = 0 /\ tried2 = <<>>

\* ElectrumXBuilder::network(n).
BuilderNetwork(n) ==
    /\ pc = "builder"
    /\ network' = n
    /\ UNCHANGED <<pc, base_uris, max_retries, CallVars, PeerVars, status>>

\* ElectrumXBuilder::base_uris(s).
BuilderBaseUris(s) ==
    /\ pc = "builder"
    /\ base_uris' = Split(s)
    /\ UNCHANGED <<pc, network, max_retries, CallVars, PeerVars, status>>

\* builder.base_uris = v, or a struct literal with that field: the field is pub.
BuilderBaseUrisField(v) ==
    /\ pc = "builder"
    /\ base_uris' = v
    /\ UNCHANGED <<pc, network, max_retries, CallVars, PeerVars, status>>

\* ElectrumXBuilder::build() returns Ok(ElectrumX { .. }): network and
\* base_uris are moved over as they are, max_retries is 3.
BuildOk ==
    /\ pc = "builder"
    /\ pc' = "idle"
    /\ max_retries' = DefaultMaxRetries
    /\ UNCHANGED <<network, base_uris, CallVars, PeerVars, status>>

\* ElectrumXBuilder::build(): ReqwestClientBuilder::build()? failed.
BuildErr ==
    /\ pc = "builder"
    /\ pc' = "build_failed"
    /\ UNCHANGED <<cfg, PeerVars, status, CallVars>>

\* ------------------------------------------------------- ElectrumX::post
\* The top of post's loop down to .send().await: format! indexes
\* base_uris[uri_index], which panics when the index is out of bounds; else
\* the request to that URI is sent.  i, a: the values of uri_index and
\* attempts; t: the attempts made so far.
StartAttempt(i, a, t) ==
    /\ uri_index' = i
    /\ attempts' = a
    /\ slept' = 0
    /\ IF i < Len(base_uris)
       THEN pc' = "send" /\ tried' = Append(t, i)
       ELSE pc' = "panicked" /\ tried' = t

\* post's entry: attempts = 0, uri_index = 0, then the loop.
EnterPost(p) ==
    /\ params' = p
    /\ sleeps' = 0
    /\ StartAttempt(0, 0, <<>>)

\* A method returns r to the caller.
Finish(r) ==
    /\ pc' = "done"
    /\ slept' = 0
    /\ result' = r

\* ReturnErr with wait_until_utxo treating a failed listing like an empty
\* one: it sleeps and polls again.
ReturnErrKeepPolling(e) ==
    /\ resp_text' = NoBody
    /\ UNCHANGED <<utxos, polls>>
    /\ IF op = "wait_until_utxo"
       THEN pc' = "poll_sleep" /\ slept' = PollDelaySecs /\ result' = NoResult
       ELSE Finish(Err(e))

\* post returned Err(e): every method propagates it with `?`.
ReturnErr(e) ==
    /\ Finish(Err(e))
    /\ resp_text' = NoBody
    /\ UNCHANGED <<utxos, polls>>

\* get_by_ticker returns .response.result, broadcast .response (the payload);
\* get_ft_info returns .response, the ResponseResult around the Ft.
Unwrap(o, body) ==
    IF o = "get_ft_info" THEN [result |-> body.payload] ELSE body.payload

\* get_unspent_scripthash after post returned the envelope: normalise, sort.
get_unspent_scripthash(body) == SortByValue(MapIntoUtxo(body.listing))

\* wait_until_utxo_scan that gives up after the second listing.
wait_until_utxo_scan_bounded(l) ==
    LET k == FirstSpendable(l, satoshis)
    IN  /\ polls' = IF polls < MaxPolls THEN polls + 1 ELSE polls
        /\ IF k > 0
           THEN Finish(Ok(l[k]))
           ELSE IF polls >= 1
           THEN Finish(Err("timed out"))
           ELSE pc' = "poll_sleep" /\ slept' = PollDelaySecs /\ result' = NoResult

\* wait_until_utxo after get_unspent_address returned listing l: return the
\* first spendable Utxo, or sleep 5 seconds and loop.
wait_until_utxo_scan(l) ==
    LET k == FirstSpendable(l, satoshis)
    IN  /\ polls' = IF polls < MaxPolls THEN polls + 1 ELSE polls
        /\ IF k > 0
           THEN Finish(Ok(l[k]))
           ELSE pc' = "poll_sleep" /\ slept' = PollDelaySecs /\ result' = NoResult

\* post returned Ok(parsed): the calling method resumes.
ReturnOk(body) ==
    /\ resp_text' = body
    /\ IF op \in DirectOps
       THEN Finish(Ok(Unwrap(op, body))) /\ UNCHANGED <<utxos, polls>>
       ELSE LET l == get_unspent_scripthash(body)
            IN  /\ utxos' = l
                /\ IF op = "wait_until_utxo"
                   THEN wait_until_utxo_scan(l)
                   ELSE Finish(Ok(l)) /\ UNCHANGED polls

\* AfterFailure with `attempts > self.max_retries` for `>=`: one retry too many.
AfterFailureOffByOne ==
    IF attempts > max_retries
    THEN IF uri_index < Len(base_uris) - 1
         THEN /\ StartAttempt(uri_index + 1, 0, tried)
              /\ resp_text' = NoBody
              /\ UNCHANGED <<params, sleeps, utxos, result, polls>>
         ELSE /\ ReturnErr(ExhaustedMsg)
              /\ UNCHANGED PostVars
    ELSE /\ attempts' = attempts + 1
         /\ sleeps' = sleeps + 1
         /\ pc' = "retry_sleep"
         /\ slept' = RetryDelaySecs
         /\ resp_text' = NoBody
         /\ UNCHANGED <<params, uri_index, tried, utxos, result, polls>>

\* AfterFailure that switches to the next URI before it has retried this one.
AfterFailureRotateFirst ==
    IF uri_index < Len(base_uris) - 1
    THEN /\ StartAttempt(uri_index + 1, 0, tried)
         /\ resp_text' = NoBody
         /\ UNCHANGED <<params, sleeps, utxos, result, polls>>
    ELSE IF attempts >= max_retries
         THEN /\ ReturnErr(ExhaustedMsg)
              /\ UNCHANGED PostVars
         ELSE /\ attempts' = attempts + 1
              /\ sleeps' = sleeps + 1
              /\ pc' = "retry_sleep"
              /\ slept' = RetryDelaySecs
              /\ resp_text' = NoBody
              /\ UNCHANGED <<params, uri_index, tried, utxos, result, polls>>

\* AfterFailure without `attempts = 0` on the switch to the next URI.
AfterFailureNoReset ==
    IF attempts >= max_retries
    THEN IF uri_index < Len(base_uris) - 1
         THEN /\ StartAttempt(uri_index + 1, attempts, tried)
              /\ resp_text' = NoBody
              /\ UNCHANGED <<params, sleeps, utxos, result, polls>>
         ELSE /\ ReturnErr(ExhaustedMsg)
              /\ UNCHANGED PostVars
    ELSE /\ attempts' = attempts + 1
         /\ sleeps' = sleeps + 1
         /\ pc' = "retry_sleep"
         /\ slept' = RetryDelaySecs
         /\ resp_text' = NoBody
         /\ UNCHANGED <<params, uri_index, tried, utxos, result, polls>>

\* AfterFailure with `uri_index < self.base_uris.len()` for `len() - 1`: it
\* steps past the last URI.
AfterFailurePastLastUri ==
    IF attempts >= max_retries
    THEN IF uri_index < Len(base_uris)
         THEN /\ StartAttempt(uri_index + 1, 0, tried)
              /\ resp_text' = NoBody
              /\ UNCHANGED <<params, sleeps, utxos, result, polls>>
         ELSE /\ ReturnErr(ExhaustedMsg)
              /\ UNCHANGED PostVars
    ELSE /\ attempts' = attempts + 1
         /\ sleeps' = sleeps + 1
         /\ pc' = "retry_sleep"
         /\ slept' = RetryDelaySecs
         /\ resp_text' = NoBody
         /\ UNCHANGED <<params, uri_index, tried, utxos, result, polls>>

\* AfterFailure that starts over at the first URI when the last one is used up.
AfterFailureStartsOver ==
    IF attempts >= max_retries
    THEN /\ StartAttempt(IF uri_index < Len(base_uris) - 1 THEN uri_index + 1 ELSE 0,
                         0, IF uri_index < Len(base_uris) - 1 THEN tried ELSE <<>>)
         /\ sleeps' = IF uri_index < Len(base_uris) - 1 THEN sleeps ELSE 0
         /\ resp_text' = NoBody
         /\ UNCHANGED <<params, utxos, result, polls>>
    ELSE /\ attempts' = attempts + 1
         /\ sleeps' = sleeps + 1
         /\ pc' = "retry_sleep"
         /\ slept' = RetryDelaySecs
         /\ resp_text' = NoBody
         /\ UNCHANGED <<params, uri_index, tried, utxos, result, polls>>

\* AfterFailure that sleeps retry_delay before it switches to the next URI too.
AfterFailureSleepOnSwitch ==
    IF attempts >= max_retries
    THEN IF uri_index < Len(base_uris) - 1
         THEN /\ StartAttempt(uri_index + 1, 0, tried)
              /\ sleeps' = sleeps + 1
              /\ resp_text' = NoBody
              /\ UNCHANGED <<params, utxos, result, polls>>
         ELSE /\ ReturnErr(ExhaustedMsg)
              /\ UNCHANGED PostVars
    ELSE /\ attempts' = attempts + 1
         /\ sleeps' = sleeps + 1
         /\ pc' = "retry_sleep"
         /\ slept' = RetryDelaySecs
         /\ resp_text' = NoBody
         /\ UNCHANGED <<params, uri_index, tried, utxos, result, polls>>

\* AfterFailure with the URI it gave up on as the error's message.
AfterFailureNamesUri ==
    IF attempts >= max_retries
    THEN IF uri_index < Len(base_uris) - 1
         THEN /\ StartAttempt(uri_index + 1, 0, tried)
              /\ resp_text' = NoBody
              /\ UNCHANGED <<params, sleeps, utxos, result, polls>>
         ELSE /\ ReturnErr(base_uris[uri_index + 1])
              /\ UNCHANGED PostVars
    ELSE /\ attempts' = attempts + 1
         /\ sleeps' = sleeps + 1
         /\ pc' = "retry_sleep"
         /\ slept' = RetryDelaySecs
         /\ resp_text' = NoBody
         /\ UNCHANGED <<params, uri_index, tried, utxos, result, polls>>

\* post after a failed attempt: retry the same URI after retry_delay, or
\* switch to the next URI, or give up.
AfterFailure ==
    IF attempts >= max_retries
    THEN IF uri_index < Len(base_uris) - 1
         THEN /\ StartAttempt(uri_index + 1, 0, tried)
              /\ resp_text' = NoBody
              /\ UNCHANGED <<params, sleeps, utxos, result, polls>>
         ELSE /\ ReturnErr(ExhaustedMsg)
              /\ UNCHANGED PostVars
    ELSE /\ attempts' = attempts + 1
         /\ sleeps' = sleeps + 1
         /\ pc' = "retry_sleep"
         /\ slept' = RetryDelaySecs
         /\ resp_text' = NoBody
         /\ UNCHANGED <<params, uri_index, tried, utxos, result, polls>>

\* .send().await returned Err(e).
SendErr ==
    /\ pc = "send"
    /\ AfterFailure
    /\ UNCHANGED <<cfg, PeerVars, status, ArgVars>>

\* .send().await returned Ok(response), whatever its HTTP status s: post
\* never looks at response.status().
SendOk(s) ==
    /\ pc = "send"
    /\ pc' = "text"
    /\ status' = s
    /\ UNCHANGED <<cfg, PeerVars, ArgVars, PostVars, OutVars, slept>>

\* TextErr handled like a send failure: logged, then retried.
TextErrRetried ==
    /\ pc = "text"
    /\ AfterFailure
    /\ UNCHANGED <<cfg, PeerVars, status, ArgVars>>

\* response.text().await? failed: post returns the error.
TextErr ==
    /\ pc = "text"
    /\ ReturnErr(TextError)
    /\ UNCHANGED <<cfg, PeerVars, status, ArgVars, PostVars>>

\* response.text().await? returned the body.
TextOk(body) ==
    /\ pc = "text"
    /\ pc' = "decode"
    /\ resp_text' = body
    /\ UNCHANGED <<cfg, PeerVars, status, ArgVars, PostVars, utxos, result, polls, slept>>

\* Decoded without the `return`: a decoded body falls through like a failure.
DecodedFallsThrough ==
    /\ pc = "decode"
    /\ DecodeOk(op, resp_text)
    /\ AfterFailure
    /\ UNCHANGED <<cfg, PeerVars, status, ArgVars>>

\* Decoded behind a check of the status (response.error_for_status()): the
\* decoded body of a response that is no 200 counts as a failed attempt.
DecodedOnlyStatusOk ==
    /\ pc = "decode"
    /\ DecodeOk(op, resp_text)
    /\ IF status = StatusOk
       THEN ReturnOk(resp_text) /\ UNCHANGED PostVars
       ELSE AfterFailure
    /\ UNCHANGED <<cfg, PeerVars, status, ArgVars>>

\* serde_json::from_str(&resp_text) is Ok(parsed): return Ok(parsed).
Decoded ==
    /\ pc = "decode"
    /\ DecodeOk(op, resp_text)
    /\ ReturnOk(resp_text)
    /\ UNCHANGED <<cfg, PeerVars, status, ArgVars, PostVars>>

\* serde_json::from_str(&resp_text) is Err(e): log it and fall through.
Undecodable ==
    /\ pc = "decode"
    /\ ~DecodeOk(op, resp_text)
    /\ AfterFailure
    /\ UNCHANGED <<cfg, PeerVars, status, ArgVars>>

\* tokio::time::sleep(retry_delay).await is over: back to the top of the loop.
RetrySleepDone ==
    /\ pc = "retry_sleep"
    /\ StartAttempt(uri_index, attempts, tried)
    /\ UNCHANGED <<cfg, PeerVars, status, ArgVars, params, sleeps, OutVars>>

\* ------------------------------------- a second task on the same client
\* post takes &self: several tasks may run it on one client at a time.  The
\* second task's post is followed through its own attempts, uri_index and
\* tried; what it sends and what it returns is left out.
\*
\* PeerEnterPost with uri_index read from where the first task's post stands,
\* as if uri_index were kept in the client and shared by the calls.
PeerEnterPostShared ==
    /\ attempts2' = 0
    /\ uri_index2' = uri_index
    /\ IF uri_index < Len(base_uris)
       THEN pc2' = "send" /\ tried2' = <<uri_index>>
       ELSE pc2' = "panicked" /\ tried2' = <<>>

\* post's entry in the second task: its own attempts = 0 and uri_index = 0,
\* then the top of the loop (base_uris[0] panics on an empty list).
PeerEnterPost ==
    /\ attempts2' = 0
    /\ uri_index2' = 0
    /\ IF 0 < Len(base_uris)
       THEN pc2' = "send" /\ tried2' = <<0>>
       ELSE pc2' = "panicked" /\ tried2' = <<>>

\* The second task calls a method that posts; an earlier call of it may have
\* returned from any URI.
PeerCall ==
    /\ pc2 \in {"idle", "done"}
    /\ PeerEnterPost
    /\ UNCHANGED <<cfg, pc, CallVars, status>>

\* The second task's attempt got a body that decodes, or the read of the body
\* failed: its post returns.
PeerReturn ==
    /\ pc2 = "send"
    /\ pc2' = "done"
    /\ UNCHANGED <<cfg, pc, CallVars, status, uri_index2, attempts2, tried2>>

\* The second task's attempt failed (send error or undecodable body): retry
\* after retry_delay, or switch to the next URI, or give up.
PeerAttemptFailed ==
    /\ pc2 = "send"
    /\ IF attempts2 >= max_retries
       THEN IF uri_index2 < Len(base_uris) - 1
            THEN /\ uri_index2' = uri_index2 + 1
                 /\ attempts2' = 0
                 /\ pc2' = "send"
                 /\ tried2' = Append(tried2, uri_index2 + 1)
            ELSE /\ pc2' = "done"
                 /\ UNCHANGED <<uri_index2, attempts2, tried2>>
       ELSE /\ attempts2' = attempts2 + 1
            /\ pc2' = "retry_sleep"
            /\ UNCHANGED <<uri_index2, tried2>>
    /\ UNCHANGED <<cfg, pc, CallVars, status>>

\* The second task's retry_delay sleep is over: the next attempt on the same URI.
PeerRetrySleepDone ==
    /\ pc2 = "retry_sleep"
    /\ pc2' = "send"
    /\ tried2' = Append(tried2, uri_index2)
    /\ UNCHANGED <<cfg, pc, CallVars, status, uri_index2, attempts2>>

\* ------------------------------------------------------------- trait Api
\* get_unspent_address down to its first suspension: parse the address
\* (unwrap panics on a parse error), require the client's network (`?`),
\* derive the scripthash, and enter get_unspent_scripthash's post.
get_unspent_address(a) ==
    /\ resp_text' = NoBody
    /\ utxos' = <<>>
    /\ IF ~FromStrOk(a)
       THEN /\ pc' = "panicked"
            /\ slept' = 0
            /\ result' = NoResult
            /\ params' = "none" /\ uri_index' = 0 /\ attempts' = 0
            /\ tried' = <<>> /\ sleeps' = 0
       ELSE IF ~RequireNetworkOk(a, network)
       THEN /\ Finish(Err(AddressMismatch))
            /\ params' = "none" /\ uri_index' = 0 /\ attempts' = 0
            /\ tried' = <<>> /\ sleeps' = 0
       ELSE /\ EnterPost(address2scripthash(a))
            /\ result' = NoResult

\* The caller invokes get_by_ticker, get_ft_info or broadcast.
CallDirect(o, arg) ==
    /\ pc = "idle"
    /\ op' = o
    /\ EnterPost(arg)
    /\ UNCHANGED <<cfg, PeerVars, status, address, satoshis, OutVars>>

\* The caller invokes get_unspent_scripthash(scripthash).
CallGetUnspentScripthash(sh) ==
    /\ pc = "idle"
    /\ op' = "get_unspent_scripthash"
    /\ EnterPost(sh)
    /\ UNCHANGED <<cfg, PeerVars, status, address, satoshis, OutVars>>

\* The caller invokes get_unspent_address(address).
CallGetUnspentAddress(a) ==
    /\ pc = "idle"
    /\ op' = "get_unspent_address"
    /\ address' = a
    /\ get_unspent_address(a)
    /\ UNCHANGED <<cfg, PeerVars, status, satoshis, polls>>

\* The caller invokes wait_until_utxo(address, satoshis).
CallWaitUntilUtxo(a, m) ==
    /\ pc = "idle"
    /\ op' = "wait_until_utxo"
    /\ address' = a
    /\ satoshis' = m
    /\ get_unspent_address(a)
    /\ UNCHANGED <<cfg, PeerVars, status, polls>>

\* time::sleep(Duration::from_secs(5)).await is over: the loop polls again.
PollSleepDone ==
    /\ pc = "poll_sleep"
    /\ get_unspent_address(address)
    /\ UNCHANGED <<cfg, PeerVars, status, ArgVars, polls>>

\* The .await points of a call: .send(), response.text(), the retry_delay
\* sleep in post, the 5-second sleep in wait_until_utxo.
SuspensionPoints == {"send", "text", "retry_sleep", "poll_sleep"}

\* Cancel honoured only by a check between two polls of wait_until_utxo.
CancelBetweenPollsOnly ==
    /\ pc = "poll_sleep"
    /\ pc' = "cancelled"
    /\ slept' = 0
    /\ resp_text' = NoBody
    /\ utxos' = <<>>
    /\ UNCHANGED <<cfg, PeerVars, status, ArgVars, PostVars, result, polls>>

\* The task that runs the call is cancelled: its future is dropped at the
\* .await it is suspended in, and with it the request in flight, the timer
\* and the locals.  The methods spawn no task, so nothing of the call runs on.
Cancel ==
    /\ pc \in SuspensionPoints
    /\ pc' = "cancelled"
    /\ slept' = 0
    /\ resp_text' = NoBody
    /\ utxos' = <<>>
    /\ UNCHANGED <<cfg, PeerVars, status, ArgVars, PostVars, result, polls>>

\* The caller has the method's result; the client is ready for the next call.
ResultTaken ==
    /\ pc = "done"
    /\ pc' = "idle"
    /\ op' = "none" /\ address' = "none" /\ satoshis' = 0
    /\ params' = "none" /\ uri_index' = 0 /\ attempts' = 0
    /\ tried' = <<>> /\ sleeps' = 0 /\ slept' = 0
    /\ resp_text' = NoBody /\ utxos' = <<>> /\ result' = NoResult /\ polls' = 0
    /\ status' = 0
    /\ UNCHANGED <<cfg, PeerVars>>

\* The caller starts a call.
Calls ==
    \/ \E o \in DirectOps : \E arg \in DirectArgs(o) : CallDirect(o, arg)
    \/ \E sh \in Scripthashes : CallGetUnspentScripthash(sh)
    \/ \E a \in Addresses : CallGetUnspentAddress(a)
    \/ \E a \in Addresses : \E m \in 1..MaxValue : CallWaitUntilUtxo(a, m)

\* The steps of a call that take no input.
Steps ==
    \/ SendErr
    \/ TextErr
    \/ Decoded
    \/ Undecodable
    \/ RetrySleepDone
    \/ PollSleepDone
    \/ Cancel
    \/ ResultTaken

\* Any client; the upstream answers listunspent with at most one entry.
Next ==
    \/ Calls
    \/ Steps
    \/ \E s \in Statuses : SendOk(s)
    \/ \E body \in EngineBodies : TextOk(body)

Spec == Init /\ [][Next]_vars

\* The steps inside post: the outcome of a send, of the read of the body, of
\* the decoding, and the end of the retry_delay sleep.
PostStep ==
    \/ SendErr
    \/ \E s \in Statuses : SendOk(s)
    \/ TextErr
    \/ \E body \in EngineBodies : TextOk(body)
    \/ Decoded
    \/ Undecodable
    \/ RetrySleepDone

\* Spec with every HTTP attempt and every retry_delay sleep coming to an end:
\* reqwest resolves a send and a body read (the client has a 30 s timeout),
\* the tokio timer fires, and the runtime resumes the task.
SpecFair == Init /\ [][Next]_vars /\ WF_vars(PostStep)

\* The default client; the upstream answers 200 OK, and listunspent with any
\* listing.
NextUtxo ==
    \/ Calls
    \/ Steps
    \/ SendOk(StatusOk)
    \/ \E body \in Bodies : TextOk(body)

SpecUtxo == InitDefault /\ [][NextUtxo]_vars

\* A client from its builder on: the builder's methods and field, build, then
\* the calls on the client it returned.
NextBuild ==
    \/ \E n \in Networks : BuilderNetwork(n)
    \/ \E s \in CsvInputs : BuilderBaseUris(s)
    \/ \E v \in BaseUrisFieldValues : BuilderBaseUrisField(v)
    \/ BuildOk
    \/ BuildErr
    \/ Next

SpecBuild == InitBuilder /\ [][NextBuild]_vars

\* Two tasks on one client: the first broadcasts, the second posts, and their
\* steps interleave in any order.
BroadcastBodies == {b \in Bodies : b.shape \in {"html", ExpectedShape("broadcast")}}
NextConc ==
    \/ CallDirect("broadcast", "rawtx_hex")
    \/ SendErr
    \/ \E s \in Statuses : SendOk(s)
    \/ TextErr
    \/ \E body \in BroadcastBodies : TextOk(body)
    \/ Decoded
    \/ Undecodable
    \/ RetrySleepDone
    \/ ResultTaken
    \/ PeerCall
    \/ PeerReturn
    \/ PeerAttemptFailed
    \/ PeerRetrySleepDone

SpecConc == Init /\ [][NextConc]_vars

\* ------------------------------------------------------------ properties
\* post returned the exhaustion error.
Exhausted == result.kind = "Err" /\ result.value = <<ExhaustedMsg>>

\* How often URI i was attempted in the current post.
TimesTried(i) == Cardinality({j \in 1..Len(tried) : tried[j] = i})

\* C1: with N = len(base_uris) > 0 and R = max_retries, one call of post makes
\* at most N * (R + 1) HTTP attempts, and exactly N * (R + 1) when all of
\* them failed (the call ended with the exhaustion error).
C1_AttemptBound ==
    Len(base_uris) > 0 =>
        /\ Len(tried) <= Len(base_uris) * (max_retries + 1)
        /\ (pc = "done" /\ Exhausted) =>
               Len(tried) = Len(base_uris) * (max_retries + 1)

C1_Witness ==
    /\ pc = "done" /\ Exhausted
    /\ Len(base_uris) = 2 /\ max_retries = DefaultMaxRetries
    /\ Len(tried) = 8

\* C2: when an attempt's body decodes (the attempts before it all failed, by
\* send or decode failure, or the call would have ended), post returns that
\* attempt's decoded value in the same step: no further HTTP attempt, no
\* retry_delay sleep, no URI switch, and the caller gets the value decoded
\* from that body.
C2_ReturnsKthDecoded ==
    [][(pc = "decode" /\ DecodeOk(op, resp_text)) =>
          /\ tried' = tried
          /\ sleeps' = sleeps
          /\ uri_index' = uri_index
          /\ attempts' = attempts
          /\ resp_text' = resp_text
          /\ pc' \in {"done", "poll_sleep"}
          /\ IF op \in DirectOps
             THEN result'.kind = "Ok" /\ result'.value = Unwrap(op, resp_text)
             ELSE utxos' = SortByValue(MapIntoUtxo(resp_text.listing))]_vars

C2_Witness ==
    /\ pc = "done" /\ result.kind = "Ok" /\ op = "broadcast"
    /\ tried = <<0, 0, 1>> /\ sleeps = 1
    /\ result.value = resp_text.payload

\* C3: the URIs one call of post attempts are base_uris[0] repeated, then
\* base_uris[1] repeated, and so on: the first attempt is on index 0, the
\* index never decreases, it grows by one at a time, and it grows only after
\* the URI before it has been attempted exactly max_retries + 1 times.
C3_UriOrder ==
    /\ Len(tried) > 0 => tried[1] = 0
    /\ \A j \in 1..Len(tried) : \A k \in j..Len(tried) : tried[j] <= tried[k]
    /\ \A j \in 1..(Len(tried) - 1) :
          tried[j + 1] # tried[j] =>
              /\ tried[j + 1] = tried[j] + 1
              /\ TimesTried(tried[j]) = max_retries + 1
    /\ \A j \in 1..Len(tried) : TimesTried(tried[j]) <= max_retries + 1

C3_Witness ==
    /\ pc = "send" /\ Len(base_uris) = 2 /\ max_retries = 2
    /\ tried = <<0, 0, 0, 1, 1>>

\* C4: post returns the exhaustion error only after every URI of base_uris
\* has been attempted max_retries + 1 times and no attempt produced a body
\* that decoded.
C4_ExhaustedOnlyAfterAll ==
    Exhausted =>
        /\ pc = "done"
        /\ resp_text = NoBody
        /\ \A i \in 0..(Len(base_uris) - 1) : TimesTried(i) = max_retries + 1

C4_Witness ==
    /\ pc = "done" /\ Exhausted
    /\ Len(base_uris) = 2 /\ max_retries = 2
    /\ tried = <<0, 0, 0, 1, 1, 1>>

\* How many entries of listing l are the output (t, v).
IdCount(l, t, v) == Cardinality({i \in 1..Len(l) : l[i].txid = t /\ l[i].vout = v})

\* The listing call returned Ok(list).
ListingReturned ==
    /\ pc = "done"
    /\ op \in {"get_unspent_scripthash", "get_unspent_address"}
    /\ result.kind = "Ok"

\* wait_until_utxo returned Ok(utxo).
WaitReturned == pc = "done" /\ op = "wait_until_utxo" /\ result.kind = "Ok"

\* C5: the list get_unspent_scripthash / get_unspent_address returns is
\* sorted non-decreasing by value and holds each (txid, vout) exactly as often
\* as the upstream response does.
C5_SortedSameEntries ==
    ListingReturned =>
        /\ \A i \in 1..(Len(result.value) - 1) :
              result.value[i].value <= result.value[i + 1].value
        /\ Len(result.value) = Len(resp_text.listing)
        /\ \A t \in Txids : \A v \in Vouts :
              IdCount(result.value, t, v) = IdCount(resp_text.listing, t, v)

C5_Witness ==
    /\ ListingReturned
    /\ Len(resp_text.listing) = 2
    /\ resp_text.listing[1].value > resp_text.listing[2].value
    /\ resp_text.listing[1].vout = resp_text.listing[2].vout
    /\ result.value[1].value < result.value[2].value

\* C6: a Utxo wait_until_utxo(address, m) returns has an empty atomicals
\* list and a value of at least m.
C6_ReturnedIsSpendable ==
    WaitReturned =>
        /\ result.value.atomicals = <<>>
        /\ result.value.value >= satoshis

C6_Witness ==
    /\ WaitReturned
    /\ polls = 2
    /\ Len(resp_text.listing) = 2
    /\ resp_text.listing[1].atomicals # <<>>
    /\ resp_text.listing[1].value >= satoshis
    /\ resp_text.listing[2].value < resp_text.listing[1].value

\* C7: the Utxo wait_until_utxo returns is an entry of the listing
\* get_unspent_address gave it, and no entry of that listing with empty
\* atomicals and value >= m has a smaller value.
C7_SmallestSufficient ==
    WaitReturned =>
        /\ \E i \in 1..Len(utxos) : utxos[i] = result.value
        /\ \A i \in 1..Len(utxos) :
              (utxos[i].atomicals = <<>> /\ utxos[i].value >= satoshis)
                  => utxos[i].value >= result.value.value

C7_Witness ==
    /\ WaitReturned
    /\ satoshis = 1
    /\ Len(resp_text.listing) = 2
    /\ resp_text.listing[1].atomicals = <<>>
    /\ resp_text.listing[2].atomicals = <<>>
    /\ resp_text.listing[1].value = 2
    /\ resp_text.listing[2].value = 1
    /\ Len(utxos) = 2
    /\ result.value = utxos[1]
    /\ result.value.value = 1

\* The step in which the post of the current poll returns an error: the read
\* of the body fails, or the last allowed attempt on the last URI fails (a
\* step that cancels the task is neither).
PostFailsNow ==
    \/ pc = "text" /\ pc' \notin {"text", "decode", "cancelled"}
    \/ /\ attempts >= max_retries
       /\ uri_index >= Len(base_uris) - 1
       /\ \/ pc = "send" /\ pc' \notin {"send", "text", "cancelled"}
          \/ pc = "decode" /\ ~DecodeOk(op, resp_text) /\ pc' # "decode"

\* C8: when the listunspent RPC of a poll of wait_until_utxo fails,
\* wait_until_utxo returns that error in the same step: it does not sleep
\* and it makes no further attempt.
C8_PollErrorReturned ==
    [][(op = "wait_until_utxo" /\ PostFailsNow) =>
          /\ pc' = "done"
          /\ result'.kind = "Err"
          /\ result'.value = <<IF pc = "text" THEN TextError ELSE ExhaustedMsg>>
          /\ slept' = 0
          /\ tried' = tried
          /\ polls' = polls]_vars

C8_Witness ==
    /\ op = "wait_until_utxo" /\ pc = "done" /\ Exhausted
    /\ polls >= 1
    /\ Len(tried) = Len(base_uris) * (max_retries + 1)

\* C9: wait_until_utxo has no bound on its polls: a listing with no Utxo of
\* empty atomicals and value >= m always leads to the 5-second sleep, the
\* sleep leads to nothing but the next poll (unless the caller cancels the
\* task), and the call returns in the step that decodes the first listing
\* holding such a Utxo.
C9_PollsUntilSpendable ==
    /\ [][(op = "wait_until_utxo" /\ pc = "decode" /\ DecodeOk(op, resp_text)) =>
             IF \E i \in 1..Len(resp_text.listing) :
                    /\ resp_text.listing[i].atomicals = <<>>
                    /\ resp_text.listing[i].value >= satoshis
             THEN pc' = "done" /\ result'.kind = "Ok"
             ELSE pc' = "poll_sleep" /\ slept' = PollDelaySecs /\ result'.kind = "None"]_vars
    /\ [][pc = "poll_sleep" =>
             \/ pc' = "poll_sleep"
             \/ pc' = "cancelled" /\ result'.kind = "None"
             \/ pc' = "send" /\ tried' = <<0>> /\ result'.kind = "None"]_vars

C9_Witness ==
    /\ op = "wait_until_utxo" /\ pc = "send"
    /\ polls = MaxPolls
    /\ result.kind = "None"

\* C10: get_unspent_address, and wait_until_utxo through it, returns the
\* AddressMismatch error value whenever the address does not parse or is not
\* an address of the client's network.
C10_BadAddressIsError ==
    (/\ op \in {"get_unspent_address", "wait_until_utxo"}
     /\ ~(FromStrOk(address) /\ RequireNetworkOk(address, network)))
        => /\ pc = "done"
           /\ result.kind = "Err"
           /\ result.value = <<AddressMismatch>>

\* C11: ElectrumXBuilder::build validates that base_uris is non-empty and
\* fails with a configuration error when it is empty, so that no built client
\* reaches post with an empty base_uris: every client build returned, and
\* every post entered on it, has at least one URI, and no call panics on the
\* index base_uris[uri_index].
C11_BuiltClientHasUris ==
    (pc \notin {"builder", "build_failed"}) => Len(base_uris) > 0

\* The attempts made so far in one post are those of a call that runs alone:
\* max_retries + 1 on URI 0, then max_retries + 1 on URI 1, and so on.
AloneSequence(t) == \A j \in 1..Len(t) : t[j] = (j - 1) \div (max_retries + 1)

\* C12: every call of post starts at uri_index = 0 and attempts = 0, whatever
\* the outcome of the earlier calls and whatever other calls run on the same
\* client at the same time: a call of either task enters the loop at URI 0
\* with no attempt counted, a step of one task leaves the other task's
\* uri_index, attempts and position alone, and the attempts of each call are
\* those of a call that runs alone.
C12_CallsStartFresh ==
    /\ [][/\ (pc2 \in {"idle", "done"} /\ pc2' \notin {"idle", "done"}) =>
              (uri_index2' = 0 /\ attempts2' = 0 /\ tried2' \in {<<>>, <<0>>})
          /\ (pc = "idle" /\ pc' # "idle") =>
              (uri_index' = 0 /\ attempts' = 0 /\ tried' \in {<<>>, <<0>>})
          /\ (PeerVars' # PeerVars) => UNCHANGED <<pc, uri_index, attempts, tried>>
          /\ (<<pc, uri_index, attempts, tried>>' # <<pc, uri_index, attempts, tried>>)
                => UNCHANGED PeerVars]_vars
    /\ [](AloneSequence(tried) /\ AloneSequence(tried2))

\* The second task starts a call at URI 0 after an earlier call of it moved
\* on to URI 1, while the first task's post is between two attempts on URI 1.
C12_Witness ==
    /\ pc2 = "send" /\ tried2 = <<0>> /\ uri_index2 = 0 /\ attempts2 = 0
    /\ pc = "retry_sleep" /\ uri_index = 1 /\ attempts = 1

\* The parts of an error's message.
MessageParts(r) == {r.value[k] : k \in 1..Len(r.value)}

\* C13: the exhaustion error carries a message that identifies the last URI
\* tried: when post returned the exhaustion error, the URI of its last attempt
\* is part of the error's message.
C13_MessageNamesLastUri ==
    (pc = "done" /\ Exhausted) =>
        base_uris[tried[Len(tried)] + 1] \in MessageParts(result)

\* C13, amended: when a send failure or an undecodable body ends post with an
\* error, the attempt was the last allowed one on the last URI, and the error
\* carries the one fixed message "All URIs exhausted, still failed", which
\* names no URI of base_uris.
C13_FixedMessage ==
    [][(pc \in {"send", "decode"} /\ pc' = "done" /\ result'.kind = "Err") =>
          /\ uri_index = Len(base_uris) - 1
          /\ attempts = max_retries
          /\ result'.value = <<"All URIs exhausted, still failed">>
          /\ \A i \in 1..Len(base_uris) : base_uris[i] \notin MessageParts(result')]_vars

\* post gave up on the second of two URIs.
C13_Witness ==
    /\ pc = "done" /\ Exhausted
    /\ Len(base_uris) = 2 /\ tried[Len(tried)] = 1

\* C14: cancelling the task that runs wait_until_utxo at any suspension point
\* (the send or receive of a request, the read of the body, the retry_delay
\* sleep, the 5-second poll sleep) terminates it, and no HTTP request is issued
\* after the cancellation: the cancellation is possible at each of the four
\* points, the step that cancels sends nothing, and a cancelled call takes no
\* further step.
C14_CancelStopsPolling ==
    /\ []((op = "wait_until_utxo" /\ pc \in SuspensionPoints) => ENABLED Cancel)
    /\ [][/\ (pc # "cancelled" /\ pc' = "cancelled") =>
              (pc \in SuspensionPoints /\ tried' = tried /\ result' = NoResult)
          /\ (pc = "cancelled") => (pc' = "cancelled" /\ tried' = tried)]_vars

\* wait_until_utxo was cancelled in its second poll, after a retry on the
\* second request.
C14_Witness ==
    /\ pc = "cancelled" /\ op = "wait_until_utxo"
    /\ polls = 1 /\ Len(tried) = 2

\* The pairs of consecutive attempts of one post that went to the same URI.
SameUriPairs(t) == Cardinality({j \in 1..(Len(t) - 1) : t[j + 1] = t[j]})

\* C15: the retry_delay sleep occurs exactly between two consecutive attempts
\* on the same URI: the sleeps of a post are as many as its pairs of
\* consecutive attempts on one URI, plus the one it is in; so there is none
\* before the first attempt, none on the switch to the next URI and none
\* before the exhaustion error, and a call that succeeds on its k-th attempt
\* against a single URI has slept k - 1 times.
C15_SleepsBetweenRetries ==
    (pc \notin {"cancelled", "builder", "build_failed"}) =>
        /\ sleeps = SameUriPairs(tried) + (IF pc = "retry_sleep" THEN 1 ELSE 0)
        /\ (pc = "retry_sleep") <=> (slept = RetryDelaySecs)
        /\ (pc = "retry_sleep") => (tried # <<>> /\ attempts \in 1..max_retries)
        /\ (pc = "done" /\ Exhausted) => sleeps = Len(base_uris) * max_retries
        /\ (pc = "done" /\ result.kind = "Ok" /\ Len(base_uris) = 1) =>
               sleeps = Len(tried) - 1

\* A call against a single URI succeeded on its third attempt, after two sleeps.
C15_Witness ==
    /\ pc = "done" /\ result.kind = "Ok"
    /\ Len(base_uris) = 1 /\ Len(tried) = 3 /\ sleeps = 2

\* The task is inside post.
InPost == pc \in {"send", "text", "decode", "retry_sleep"}

\* C16: provided every HTTP attempt and every sleep terminates, every call of
\* post on a non-empty base_uris eventually terminates, with a value or with
\* an error: a task inside post gets out of it, to the caller (done), to the
\* poll loop that called it (poll_sleep), or by being cancelled, and never by
\* a panic.
C16_PostTerminates ==
    (InPost /\ Len(base_uris) > 0) ~> (pc \in {"done", "poll_sleep", "cancelled"})

\* post returned after the longest run it can make on the longest list of
\* URIs: every attempt on every URI failed.
C16_Witness ==
    /\ pc = "done" /\ op \in DirectOps /\ result.kind = "Err"
    /\ Len(base_uris) = MaxUris /\ max_retries = DefaultMaxRetries
    /\ Len(tried) = MaxUris * (DefaultMaxRetries + 1)

\* C17: a failure to read the body as text after a successful send is not
\* retried: post returns that error at once, with no further attempt and no
\* sleep, even when retries and URIs remain; and it is the only error other
\* than the exhaustion error that post surfaces to the methods that return
\* post's error as it is.
C17_TextErrorNotRetried ==
    /\ [][(pc = "text" /\ pc' \notin {"text", "decode", "cancelled"}) =>
              /\ pc' = "done"
              /\ result' = Err(TextError)
              /\ UNCHANGED <<uri_index, attempts, tried, sleeps>>]_vars
    /\ []((/\ pc = "done"
           /\ op \in DirectOps \cup {"get_unspent_scripthash"}
           /\ result.kind = "Err") =>
              result.value \in {<<TextError>>, <<ExhaustedMsg>>})

\* The first body read failed and post returned the error, with a second URI
\* and retries left unused.
C17_Witness ==
    /\ pc = "done" /\ result.kind = "Err" /\ result.value = <<TextError>>
    /\ Len(tried) = 1 /\ sleeps = 0
    /\ Len(base_uris) = 2 /\ max_retries >= 1

\* post's attempt ended as a failure: a retry sleep, the switch to the next
\* URI, or the exhaustion error.
FailureHandled ==
    \/ pc' = "retry_sleep" /\ attempts' = attempts + 1
    \/ pc' = "send" /\ uri_index' = uri_index + 1
    \/ pc' = "done" /\ result'.kind = "Err" /\ result'.value = <<ExhaustedMsg>>

\* post's attempt ended as a success: the method goes on with the decoded
\* body, and returns Ok unless it is wait_until_utxo going to sleep.
SuccessHandled ==
    /\ resp_text' = resp_text
    /\ UNCHANGED <<uri_index, attempts, tried, sleeps>>
    /\ \/ pc' = "done" /\ result'.kind = "Ok"
       \/ pc' = "poll_sleep" /\ op = "wait_until_utxo"

\* C18: the success or failure of an attempt depends only on whether a body
\* was received and decodes, never on the HTTP status code: a response with
\* any status goes on to the read of its body; a body that decodes is a
\* success under every status, the non-2xx ones too; a body that does not
\* decode is a retryable failure under every status, 200 too.
C18_StatusIgnored ==
    /\ [](pc = "send" => \A s \in Statuses : ENABLED SendOk(s))
    /\ [](pc \in {"text", "decode"} => status \in Statuses)
    /\ [][(pc = "decode" /\ pc' # "decode") =>
              \A s \in Statuses : (status = s) =>
                  /\ DecodeOk(op, resp_text) => SuccessHandled
                  /\ ~DecodeOk(op, resp_text) => FailureHandled]_vars

\* The first attempt was answered 500 with a body that decodes, and the
\* method returned Ok.
C18_Witness ==
    /\ pc = "done" /\ result.kind = "Ok"
    /\ status = 500 /\ Len(tried) = 1

\* The outputs (txid, vout) of the entries of l that carry value v, in the
\* order of l.
OutputsOfValue(l, v) ==
    LET hits == SelectSeq(l, LAMBDA u : u.value = v)
    IN  [i \in 1..Len(hits) |-> <<hits[i].txid, hits[i].vout, hits[i].atomicals>>]

\* C19: the sort by value that get_unspent_scripthash applies is stable:
\* Utxos of equal value come in the returned list in the same relative order
\* as in the upstream response; for every value, the returned entries of that
\* value are the upstream ones of that value, in the upstream order.
C19_StableSort ==
    ListingReturned =>
        \A v \in 1..MaxValue :
            OutputsOfValue(result.value, v) = OutputsOfValue(resp_text.listing, v)

\* The upstream listed two different outputs of equal value, the one with the
\* larger vout first, and the listing came back in that order.
C19_Witness ==
    /\ ListingReturned
    /\ Len(result.value) = 2
    /\ result.value[1].value = result.value[2].value
    /\ result.value[1].vout > result.value[2].vout

\* C20: in every reachable state of a call of post on a non-empty base_uris,
\* 0 <= uri_index < len(base_uris) and 0 <= attempts <= max_retries; and
\* within a call attempts is reset to 0 exactly when uri_index is incremented:
\* uri_index only ever grows by one, it does so with attempts back at 0, and
\* attempts never falls otherwise.
C20_IndexAndAttemptsInRange ==
    /\ []((Len(base_uris) > 0) =>
             /\ uri_index \in 0..(Len(base_uris) - 1)
             /\ attempts \in 0..max_retries
             /\ pc # "panicked" \/ tried = <<>>)
    /\ [][(InPost /\ InPost') =>
              /\ uri_index' \in {uri_index, uri_index + 1}
              /\ (uri_index' = uri_index + 1) =>
                     (attempts = max_retries /\ attempts' = 0)
              /\ (uri_index' = uri_index) =>
                     attempts' \in {attempts, attempts + 1}]_vars

\* post has just switched to the second URI: uri_index is 1 and attempts is
\* back at 0 after max_retries = 2 retries on the first.
C20_Witness ==
    /\ pc = "send" /\ uri_index = 1 /\ attempts = 0
    /\ max_retries = 2 /\ tried = <<0, 0, 0, 1>>

====
